---- MODULE Spec2Model ----
(***************************************************************************)
(* sat::model_converter (src/sat/sat_model_converter.cpp): the ledger of   *)
(* eliminated / blocked variables of the SAT preprocessor, its             *)
(* construction (mk, insert), its replay over a model (operator()), the    *)
(* verifier check_model, the structural check check_invariant and the      *)
(* utilities collect_vars, max_var, copy, reset and operator=.             *)
(*                                                                         *)
(* A literal is a record [var, sign] (sign = TRUE is the negative          *)
(* literal); a model maps every variable to l_true, l_false or l_undef.    *)
(* An entry is [k, var, clauses]; clauses is the flattened literal vector  *)
(* in which every clause ends with null_literal.                           *)
(***************************************************************************)
EXTENDS Integers, Sequences, FiniteSets

\* ---------------------------------------------------------------- bounds
NumVars      == 2    \* variables are 0 .. NumVars-1
MaxEntries   == 2    \* entries held by all converters together while building
MaxClauses   == 2    \* clauses attached in all converters together while building
MaxClauseLen == 2    \* literals of one clause handed to insert

VARIABLES
    debug,      \* TRUE: the build compiles SASSERT and DEBUG_CODE in
    m_entries,  \* converter -> its vector<entry>
    m,          \* the model handed to operator() / check_model
    m_in,       \* the caller's copy of that model as it was at the call
    pc,         \* where the caller / operator() stands
    it,         \* operator(): the entry iterator (1-based position, Len+1 = end())
    pos,        \* operator(): position of the range-for in it->m_clauses
    sat,        \* operator(): the local sat
    var_sign,   \* operator(): the local var_sign
    ret         \* the last call and the value it returned

vars == <<debug, m_entries, m, m_in, pc, it, pos, sat, var_sign, ret>>

\* ------------------------------------------------------------ primitives
Vars   == 0 .. (NumVars - 1)
Lits   == [var : Vars, sign : BOOLEAN]
null_literal == [var |-> 2147483647, sign |-> FALSE]
Kinds  == {"ELIM_VAR", "BLOCK_LIT"}
Models == [Vars -> {"l_true", "l_false", "l_undef"}]
This   == "a"
Other  == "b"
Conv   == {This, Other}
NoRet  == [op |-> "none", arg |-> 0, val |-> 0]

\* clauses a caller hands to insert
ClauseInputs == UNION {[1 .. n -> Lits] : n \in 1 .. MaxClauseLen}

\* literal evaluation: l_undef when unassigned, else whether the value
\* matches the polarity
value_at(l, mdl) ==
    IF mdl[l.var] = "l_undef" THEN "l_undef"
    ELSE IF l.sign
         THEN (IF mdl[l.var] = "l_true" THEN "l_false" ELSE "l_true")
         ELSE mdl[l.var]

NumNull(cl) == Cardinality({p \in 1 .. Len(cl) : cl[p] = null_literal})

RECURSIVE CountClauses(_)
CountClauses(es) ==
    IF es = << >> THEN 0
    ELSE NumNull(Head(es).clauses) + CountClauses(Tail(es))

\* what the converters hold together; mk and insert stop at the bounds
TotalEntries == Len(m_entries[This]) + Len(m_entries[Other])
TotalClauses == CountClauses(m_entries[This]) + CountClauses(m_entries[Other])

\* ---------------------------------------------------------- construction
entry(k, v) == [k |-> k, var |-> v, clauses |-> << >>]

contains(cl, v) == \E p \in 1 .. Len(cl) : cl[p].var = v

\* a failed SASSERT aborts the process
Fault == /\ pc' = "fault"
         /\ ret' = NoRet
         /\ UNCHANGED <<debug, m_entries, m, m_in, it, pos, sat, var_sign>>

\* model_converter::mk(k, v): push_back(entry(k, v)); both SASSERTs on the
\* new entry hold by construction
mk(c) ==
    /\ pc = "build"
    /\ TotalEntries < MaxEntries
    /\ \E k \in Kinds, v \in Vars :
          m_entries' = [m_entries EXCEPT ![c] = Append(@, entry(k, v))]
    /\ ret' = NoRet
    /\ UNCHANGED <<debug, m, m_in, pc, it, pos, sat, var_sign>>

\* push_clause putting the clause and its sentinel in front
push_clause_front(es, i, cl) ==
    [es EXCEPT ![i].clauses = cl \o <<null_literal>> \o @]

\* the push_back calls of the three insert overloads on entry i
push_clause(es, i, cl) ==
    [es EXCEPT ![i].clauses = @ \o cl \o <<null_literal>>]

\* model_converter::insert(entry & e, clause const & c); e is entry i of
\* converter c, a reference the caller still holds validly
insert(c) ==
    /\ pc = "build"
    /\ TotalClauses < MaxClauses
    /\ \E i \in 1 .. Len(m_entries[c]), cl \in ClauseInputs :
          IF debug /\ ~contains(cl, m_entries[c][i].var)
          THEN Fault
          ELSE /\ m_entries' = [m_entries EXCEPT ![c] = push_clause(@, i, cl)]
               /\ ret' = NoRet
               /\ UNCHANGED <<debug, m, m_in, pc, it, pos, sat, var_sign>>

\* model_converter::insert(entry & e, literal l1, literal l2)
insert_binary(c) ==
    /\ pc = "build"
    /\ TotalClauses < MaxClauses
    /\ \E i \in 1 .. Len(m_entries[c]), l1 \in Lits, l2 \in Lits :
          IF debug /\ ~(l1.var = m_entries[c][i].var \/ l2.var = m_entries[c][i].var)
          THEN Fault
          ELSE /\ m_entries' = [m_entries EXCEPT ![c] = push_clause(@, i, <<l1, l2>>)]
               /\ ret' = NoRet
               /\ UNCHANGED <<debug, m, m_in, pc, it, pos, sat, var_sign>>

\* model_converter::insert(entry & e, clause_wrapper const & c)
insert_wrapper(c) ==
    /\ pc = "build"
    /\ TotalClauses < MaxClauses
    /\ \E i \in 1 .. Len(m_entries[c]), cl \in ClauseInputs :
          IF debug /\ ~contains(cl, m_entries[c][i].var)
          THEN Fault
          ELSE /\ m_entries' = [m_entries EXCEPT ![c] = push_clause(@, i, cl)]
               /\ ret' = NoRet
               /\ UNCHANGED <<debug, m, m_in, pc, it, pos, sat, var_sign>>

\* ------------------------------------------------------------ operator()
\* entry to operator()(model & m): it = m_entries.end()
apply_begin ==
    /\ pc = "build"
    /\ m' \in Models
    /\ m_in' = m'
    /\ it' = Len(m_entries[This]) + 1
    /\ pc' = "apply_loop"
    /\ ret' = NoRet
    /\ UNCHANGED <<debug, m_entries, pos, sat, var_sign>>

\* at_begin leaving the loop one entry early
at_begin_early(i) == i <= 2

\* it != begin, negated: the loop is over
at_begin(i) == i = 1

\* own_value with the two values exchanged
own_value_flipped(vs) == IF vs THEN "l_true" ELSE "l_false"

\* var_sign ? l_false : l_true, the value given to the entry's variable
own_value(vs) == IF vs THEN "l_false" ELSE "l_true"

\* set_own storing the value into every variable
set_own_every(mdl, e, vs) == [v \in DOMAIN mdl |-> own_value(vs)]

\* set_own without the store
set_own_skipped(mdl, e, vs) == mdl

\* m[it->var()] = var_sign ? l_false : l_true
set_own(mdl, e, vs) == [mdl EXCEPT ![e.var] = own_value(vs)]

\* record_sign taking the polarity of every literal
record_sign_any(l, e, vs) == l.sign

\* if (v == it->var()) var_sign = sign;
record_sign(l, e, vs) == IF l.var = e.var THEN l.sign ELSE vs

\* value_at(l, m) == l_true
lit_sat(l, mdl) == value_at(l, mdl) = "l_true"

\* can_assign without the test m[v] == l_undef
can_assign_defined(l, e, mdl) == l.var # e.var

\* can_assign without the test v != it->var()
can_assign_own(l, e, mdl) == mdl[l.var] = "l_undef"

\* else if (!sat && v != it->var() && m[v] == l_undef); sat is false there
can_assign(l, e, mdl) == l.var # e.var /\ mdl[l.var] = "l_undef"

\* set_lit storing the value that makes the literal false
set_lit_flipped(mdl, l) == [mdl EXCEPT ![l.var] = IF l.sign THEN "l_true" ELSE "l_false"]

\* m[v] = sign ? l_false : l_true
set_lit(mdl, l) == [mdl EXCEPT ![l.var] = IF l.sign THEN "l_false" ELSE "l_true"]

\* elim_undef asked of entries of either kind
elim_undef_anykind(e, mdl) == mdl[e.var] = "l_undef"

\* it->get_kind() != ELIM_VAR || m[it->var()] == l_undef
elim_undef(e, mdl) == e.k # "ELIM_VAR" \/ mdl[e.var] = "l_undef"

\* while (it != begin) { --it; SASSERT(...); sat = false; var_sign = false;
apply_loop ==
    /\ pc = "apply_loop"
    /\ IF at_begin(it)
       THEN /\ pc' = "applied"
            /\ ret' = [op |-> "apply", arg |-> 0, val |-> 0]
            /\ UNCHANGED <<debug, m_entries, m, m_in, it, pos, sat, var_sign>>
       ELSE LET e == m_entries[This][it - 1] IN
            IF debug /\ ~elim_undef(e, m)
            THEN /\ it' = it - 1
                 /\ pc' = "fault"
                 /\ UNCHANGED <<debug, m_entries, m, m_in, pos, sat, var_sign, ret>>
            ELSE /\ it' = it - 1
                 /\ sat' = FALSE
                 /\ var_sign' = FALSE
                 /\ pos' = 1
                 /\ pc' = "apply_scan"
                 /\ UNCHANGED <<debug, m_entries, m, m_in, ret>>

\* where control goes when the for loop over it->m_clauses is left
AfterScan == IF debug THEN "apply_debug" ELSE "apply_loop"

\* one iteration of for (literal l : it->m_clauses), or its exit
apply_scan ==
    /\ pc = "apply_scan"
    /\ LET e == m_entries[This][it] IN
       IF pos > Len(e.clauses)
       THEN /\ pc' = AfterScan
            /\ UNCHANGED <<debug, m_entries, m, m_in, it, pos, sat, var_sign, ret>>
       ELSE LET l == e.clauses[pos] IN
            IF l = null_literal
            THEN IF ~sat
                 THEN /\ m' = set_own(m, e, var_sign)
                      /\ pc' = AfterScan
                      /\ UNCHANGED <<debug, m_entries, m_in, it, pos, sat, var_sign, ret>>
                 ELSE /\ sat' = FALSE
                      /\ pos' = pos + 1
                      /\ UNCHANGED <<debug, m_entries, m, m_in, pc, it, var_sign, ret>>
            ELSE IF sat
                 THEN /\ pos' = pos + 1
                      /\ UNCHANGED <<debug, m_entries, m, m_in, pc, it, sat, var_sign, ret>>
                 ELSE /\ var_sign' = record_sign(l, e, var_sign)
                      /\ IF lit_sat(l, m)
                         THEN /\ sat' = TRUE
                              /\ m' = m
                         ELSE IF can_assign(l, e, m)
                              THEN /\ m' = set_lit(m, l)
                                   /\ sat' = TRUE
                              ELSE /\ m' = m
                                   /\ sat' = sat
                      /\ pos' = pos + 1
                      /\ UNCHANGED <<debug, m_entries, m_in, pc, it, ret>>

\* scan_sat that does not clear sat at the end of a clause
RECURSIVE scan_sat_noreset(_, _, _, _, _)
scan_sat_noreset(cl, p, s, ok, mdl) ==
    IF p > Len(cl) THEN ok
    ELSE IF cl[p] = null_literal
         THEN scan_sat_noreset(cl, p + 1, s, ok /\ s, mdl)
         ELSE IF s
              THEN scan_sat_noreset(cl, p + 1, s, ok, mdl)
              ELSE scan_sat_noreset(cl, p + 1, value_at(cl[p], mdl) = "l_true", ok, mdl)

\* the scan of check_model and of DEBUG_CODE over one literal vector:
\* ok stays TRUE iff sat holds at every null_literal
RECURSIVE scan_sat(_, _, _, _, _)
scan_sat(cl, p, s, ok, mdl) ==
    IF p > Len(cl) THEN ok
    ELSE IF cl[p] = null_literal
         THEN scan_sat(cl, p + 1, FALSE, ok /\ s, mdl)
         ELSE IF s
              THEN scan_sat(cl, p + 1, s, ok, mdl)
              ELSE scan_sat(cl, p + 1, value_at(cl[p], mdl) = "l_true", ok, mdl)

\* DEBUG_CODE({ ... SASSERT(sat) ... })
apply_selfcheck ==
    /\ pc = "apply_debug"
    /\ pc' = IF scan_sat(m_entries[This][it].clauses, 1, FALSE, TRUE, m)
             THEN "apply_loop" ELSE "fault"
    /\ UNCHANGED <<debug, m_entries, m, m_in, it, pos, sat, var_sign, ret>>

\* ----------------------------------------------------------- check_model
RECURSIVE check_model_from(_, _, _, _)
check_model_from(es, i, ok, mdl) ==
    IF i = 0 THEN ok
    ELSE check_model_from(es, i - 1,
                          scan_sat(es[i].clauses, 1, FALSE, ok, mdl), mdl)

check_model_result(es, mdl) == check_model_from(es, Len(es), TRUE, mdl)

\* check_model on the model operator() has just patched
check_model ==
    /\ pc = "applied"
    /\ pc' = "checked"
    /\ ret' = [op |-> "check_model", arg |-> "after_apply",
               val |-> check_model_result(m_entries[This], m)]
    /\ UNCHANGED <<debug, m_entries, m, m_in, it, pos, sat, var_sign>>

\* check_model on a model of the caller's choosing
check_model_on ==
    /\ pc = "build"
    /\ m' \in Models
    /\ m_in' = m'
    /\ pc' = "checked"
    /\ ret' = [op |-> "check_model", arg |-> "direct",
               val |-> check_model_result(m_entries[This], m')]
    /\ UNCHANGED <<debug, m_entries, it, pos, sat, var_sign>>

\* ------------------------------------------------- reset, copy, operator=
\* model_converter::reset: m_entries.finalize()
reset_entries(all, c) == [all EXCEPT ![c] = << >>]

\* model_converter::copy: reset(); m_entries.append(src.m_entries);
\* src is read after the reset, and is the same object when dst = src
copy_entries(all, dst, src) ==
    LET cleared == reset_entries(all, dst)
    IN  [cleared EXCEPT ![dst] = @ \o cleared[src]]

reset(c) ==
    /\ pc = "build"
    /\ m_entries' = reset_entries(m_entries, c)
    /\ ret' = [op |-> "reset", arg |-> c, val |-> 0]
    /\ UNCHANGED <<debug, m, m_in, pc, it, pos, sat, var_sign>>

copy(dst, src) ==
    /\ pc = "build"
    /\ m_entries' = copy_entries(m_entries, dst, src)
    /\ ret' = [op |-> "copy", arg |-> <<dst, src>>, val |-> 0]
    /\ UNCHANGED <<debug, m, m_in, pc, it, pos, sat, var_sign>>

\* model_converter::operator=: copy(other); return *this;
assign(dst, src) ==
    /\ pc = "build"
    /\ m_entries' = copy_entries(m_entries, dst, src)
    /\ ret' = [op |-> "assign", arg |-> <<dst, src>>, val |-> dst]
    /\ UNCHANGED <<debug, m, m_in, pc, it, pos, sat, var_sign>>

\* ------------------------------------------------------- check_invariant
\* check_invariant_asserts without the assertions on the literals
check_invariant_asserts_nolits(es, num_vars) ==
    \A i \in 1 .. Len(es) :
        /\ es[i].var < num_vars
        /\ es[i].k = "ELIM_VAR" =>
             \A j \in (i + 1) .. Len(es) : es[j].var # es[i].var

\* check_invariant_asserts without SASSERT(it2->var() != it->var())
check_invariant_asserts_novar(es, num_vars) ==
    \A i \in 1 .. Len(es) :
        /\ es[i].var < num_vars
        /\ es[i].k = "ELIM_VAR" =>
             \A j \in (i + 1) .. Len(es) :
                 \A p \in 1 .. Len(es[j].clauses) :
                       LET l == es[j].clauses[p] IN
                       /\ l.var # es[i].var
                       /\ (l = null_literal \/ l.var < num_vars)

\* the conjunction of the SASSERTs check_invariant(num_vars) evaluates
check_invariant_asserts(es, num_vars) ==
    \A i \in 1 .. Len(es) :
        /\ es[i].var < num_vars
        /\ es[i].k = "ELIM_VAR" =>
             \A j \in (i + 1) .. Len(es) :
                 /\ es[j].var # es[i].var
                 /\ \A p \in 1 .. Len(es[j].clauses) :
                       LET l == es[j].clauses[p] IN
                       /\ l.var # es[i].var
                       /\ (l = null_literal \/ l.var < num_vars)

\* bool check_invariant(unsigned num_vars) const: a failed SASSERT aborts a
\* debug build; every path that returns, returns true
check_invariant(c) ==
    /\ pc = "build"
    /\ \E num_vars \in 1 .. NumVars :
          IF debug /\ ~check_invariant_asserts(m_entries[c], num_vars)
          THEN Fault
          ELSE /\ ret' = [op |-> "check_invariant", arg |-> num_vars, val |-> TRUE]
               /\ UNCHANGED <<debug, m_entries, m, m_in, pc, it, pos, sat, var_sign>>

\* ---------------------------------------------------- collect_vars, max_var
\* for (entry const & e : m_entries) s.insert(e.m_var);
collect_vars_result(es, s) == s \cup {es[i].var : i \in 1 .. Len(es)}

collect_vars(c) ==
    /\ pc = "build"
    /\ \E s \in SUBSET Vars :
          ret' = [op |-> "collect_vars", arg |-> s,
                  val |-> collect_vars_result(m_entries[c], s)]
    /\ UNCHANGED <<debug, m_entries, m, m_in, pc, it, pos, sat, var_sign>>

\* max_var_lits without the test l != null_literal
RECURSIVE max_var_lits_nonull(_, _, _)
max_var_lits_nonull(cl, p, result) ==
    IF p > Len(cl) THEN result
    ELSE LET l == cl[p] IN
         max_var_lits_nonull(cl, p + 1, IF l.var > result THEN l.var ELSE result)

\* the inner loop of max_var over one literal vector
RECURSIVE max_var_lits(_, _, _)
max_var_lits(cl, p, result) ==
    IF p > Len(cl) THEN result
    ELSE LET l == cl[p] IN
         max_var_lits(cl, p + 1,
                      IF l # null_literal /\ l.var > result THEN l.var ELSE result)

\* the outer loop of max_var over the entries
RECURSIVE max_var_from(_, _, _)
max_var_from(es, i, result) ==
    IF i > Len(es) THEN result
    ELSE max_var_from(es, i + 1, max_var_lits(es[i].clauses, 1, result))

max_var_result(es, min) == max_var_from(es, 1, min)

max_var(c) ==
    /\ pc = "build"
    /\ \E min \in 0 .. NumVars :
          ret' = [op |-> "max_var", arg |-> min,
                  val |-> max_var_result(m_entries[c], min)]
    /\ UNCHANGED <<debug, m_entries, m, m_in, pc, it, pos, sat, var_sign>>

\* --------------------------------------------------------- specification
Init ==
    /\ debug \in BOOLEAN
    /\ m_entries = [c \in Conv |-> << >>]
    /\ m = [v \in Vars |-> "l_undef"]
    /\ m_in = m
    /\ pc = "build"
    /\ it = 1
    /\ pos = 1
    /\ sat = FALSE
    /\ var_sign = FALSE
    /\ ret = NoRet

Next ==
    \/ mk(This)
    \/ insert(This)
    \/ insert_binary(This)
    \/ insert_wrapper(This)
    \/ apply_begin
    \/ apply_loop
    \/ apply_scan
    \/ apply_selfcheck
    \/ check_model
    \/ check_model_on

Spec == Init /\ [][Next]_vars

\* the steps of a call of operator() that has begun
ApplyStep == apply_loop \/ apply_scan \/ apply_selfcheck

\* one converter: construction and the read-only queries
NextQuery ==
    \/ mk(This)
    \/ insert(This)
    \/ insert_binary(This)
    \/ insert_wrapper(This)
    \/ check_invariant(This)
    \/ collect_vars(This)
    \/ max_var(This)

SpecQuery == Init /\ [][NextQuery]_vars

\* two converters: construction, and reset / copy / operator= between them
NextCopy ==
    \/ \E c \in Conv : mk(c)
    \/ \E c \in Conv : insert(c)
    \/ \E c \in Conv : insert_binary(c)
    \/ \E c \in Conv : insert_wrapper(c)
    \/ \E c \in Conv : reset(c)
    \/ \E dst \in Conv, src \in Conv : copy(dst, src)
    \/ \E dst \in Conv, src \in Conv : assign(dst, src)

SpecCopy == Init /\ [][NextCopy]_vars

\* ------------------------------------------------ vocabulary of the claims
Ledger == m_entries[This]
Cur    == Ledger[it]
InApply == pc \in {"apply_loop", "apply_scan", "apply_debug"}

\* positions of the sentinels of a literal vector, and the literals of the
\* clause that ends at sentinel q
ClauseEnds(cl) == {q \in 1 .. Len(cl) : cl[q] = null_literal}
ClauseLits(cl, q) ==
    {cl[p] : p \in {r \in 1 .. (q - 1) : \A t \in r .. (q - 1) : cl[t] # null_literal}}

LitTrue(l, mdl) == mdl[l.var] = (IF l.sign THEN "l_false" ELSE "l_true")
ClauseHolds(cl, q, mdl) == \E l \in ClauseLits(cl, q) : LitTrue(l, mdl)
AllClausesHold(es, mdl) ==
    \A i \in 1 .. Len(es) : \A q \in ClauseEnds(es[i].clauses) :
        ClauseHolds(es[i].clauses, q, mdl)

EntryVars(es) == {es[i].var : i \in 1 .. Len(es)}
Mentions(e, v) == \E p \in 1 .. Len(e.clauses) : e.clauses[p].var = v
MentionedVars(es) ==
    {v \in Vars : \E i \in 1 .. Len(es) : Mentions(es[i], v)}

\* the structural ordering invariant: nothing after an ELIM_VAR entry for v
\* has v as its variable or mentions v
OrderInv(es) ==
    \A i \in 1 .. Len(es) : \A j \in (i + 1) .. Len(es) :
        es[i].k = "ELIM_VAR" => es[j].var # es[i].var /\ ~Mentions(es[j], es[i].var)

\* the same for entries of either kind
OrderInvAllKinds(es) ==
    \A i \in 1 .. Len(es) : \A j \in (i + 1) .. Len(es) :
        es[j].var # es[i].var /\ ~Mentions(es[j], es[i].var)

\* every clause has a literal over its entry's variable (what insert asserts)
OwnVarInClauses(es) ==
    \A i \in 1 .. Len(es) : \A q \in ClauseEnds(es[i].clauses) :
        \E l \in ClauseLits(es[i].clauses, q) : l.var = es[i].var

\* ... and within one entry these literals all have the same polarity
OwnPolarity(es) ==
    /\ OwnVarInClauses(es)
    /\ \A i \in 1 .. Len(es) :
           \A p1, p2 \in 1 .. Len(es[i].clauses) :
              (es[i].clauses[p1].var = es[i].var /\ es[i].clauses[p2].var = es[i].var)
                  => es[i].clauses[p1].sign = es[i].clauses[p2].sign

NonLedgerAssigned(es, mdl) == \A v \in Vars \ EntryVars(es) : mdl[v] # "l_undef"

AfterApplyChecked == pc = "checked" /\ ret.arg = "after_apply"

\* ------------------------------------------------------------------ C1
\* C1 as stated: on a ledger with the ordering invariant and a model that
\* assigns every non-ledger variable, apply then check_model returns true.
\* Stated of the debug build, where a run that gets this far has met no
\* failed assertion: no precondition of insert or of apply was violated.
C1_Original ==
    (debug /\ AfterApplyChecked /\ OrderInv(Ledger)
        /\ NonLedgerAssigned(Ledger, m_in))
        => ret.val = TRUE

\* C1 amended: replay correctness holds when the ordering invariant covers
\* entries of both kinds and every clause contains its entry's variable, all
\* occurrences within one entry having one polarity.
C1_ReplayCorrect ==
    (AfterApplyChecked /\ OrderInvAllKinds(Ledger) /\ OwnPolarity(Ledger)
        /\ NonLedgerAssigned(Ledger, m_in))
        => ret.val = TRUE

C1_Witness ==
    /\ AfterApplyChecked /\ OrderInvAllKinds(Ledger) /\ OwnPolarity(Ledger)
    /\ NonLedgerAssigned(Ledger, m_in)
    /\ Len(Ledger) = 2
    /\ Ledger[1].clauses # << >> /\ Ledger[2].clauses # << >>
    /\ Mentions(Ledger[1], Ledger[2].var)
    /\ m # m_in
    /\ ret.val = TRUE

\* ------------------------------------------------------------------ C2
\* C2 as stated: after apply returns, every entry's variable is defined.
C2_Original ==
    pc = "applied" => \A v \in EntryVars(Ledger) : m[v] # "l_undef"

AtUnsatSentinel ==
    /\ pc = "apply_scan"
    /\ pos <= Len(Cur.clauses)
    /\ Cur.clauses[pos] = null_literal
    /\ ~sat

\* C2 amended: apply never makes a defined variable undefined; it defines the
\* entry's variable exactly in the step that reaches the end of a clause
\* nothing satisfied, and no other step of the entry writes that variable; the
\* exit from a scan (the only step of an empty justification) writes nothing.
C2_DefinedWhenForced ==
    /\ [](pc = "applied" => \A v \in Vars : m_in[v] # "l_undef" => m[v] # "l_undef")
    /\ [][InApply =>
            /\ AtUnsatSentinel => m'[Cur.var] # "l_undef"
            /\ (pc = "apply_scan" /\ ~AtUnsatSentinel) => m'[Cur.var] = m[Cur.var]
            /\ (pc = "apply_scan" /\ pos > Len(Cur.clauses)) => m' = m
            /\ pc # "apply_scan" => m' = m]_vars

C2_Witness ==
    /\ pc = "applied"
    /\ Len(Ledger) = 2
    /\ Ledger[1].clauses = << >> /\ m[Ledger[1].var] = "l_undef"
    /\ Ledger[2].clauses # << >> /\ m_in[Ledger[2].var] = "l_undef"
    /\ m[Ledger[2].var] # "l_undef"

\* ------------------------------------------------------------------ C3
AlreadyTotal(es, mdl) ==
    /\ \A v \in EntryVars(es) : mdl[v] # "l_undef"
    /\ AllClausesHold(es, mdl)

\* C3 as stated: if every entry variable is defined and every clause holds,
\* apply changes no value. Stated of the debug build, where a run that gets
\* this far has met no failed assertion.
C3_Original ==
    (debug /\ pc = "applied" /\ AlreadyTotal(Ledger, m_in)) => m = m_in

\* C3 amended: the same when, in addition, every variable that occurs in a
\* justification is defined; then no step of apply changes the model.
C3_NoOp ==
    ((InApply \/ pc = "applied") /\ AlreadyTotal(Ledger, m_in)
        /\ \A v \in MentionedVars(Ledger) : m_in[v] # "l_undef")
        => m = m_in

C3_Witness ==
    /\ pc = "applied" /\ AlreadyTotal(Ledger, m_in)
    /\ \A v \in MentionedVars(Ledger) : m_in[v] # "l_undef"
    /\ Len(Ledger) = 2
    /\ Ledger[1].clauses # << >> /\ Ledger[2].clauses # << >>
    /\ m = m_in

\* ------------------------------------------------------------------ C4
\* C4: check_model returns true exactly when every clause of every entry has
\* a literal that is true under the model, and it changes neither the model
\* nor the ledger.
C4_CheckModel ==
    /\ [](pc = "checked" => ret.val = AllClausesHold(Ledger, m))
    /\ [][pc' = "checked" =>
            /\ m_entries' = m_entries
            /\ pc = "applied" => m' = m]_vars

C4_Witness ==
    /\ pc = "checked" /\ ret.arg = "direct" /\ ret.val = FALSE
    /\ \E i \in 1 .. Len(Ledger) : \E q \in ClauseEnds(Ledger[i].clauses) :
          ClauseHolds(Ledger[i].clauses, q, m)
    /\ \E i \in 1 .. Len(Ledger) : \E q \in ClauseEnds(Ledger[i].clauses) :
          ~ClauseHolds(Ledger[i].clauses, q, m)

\* ------------------------------------------------------------------ C5
\* an entry after an ELIM_VAR entry for v mentions v
MentionedAfterElim(es) ==
    \E i \in 1 .. Len(es) : \E j \in (i + 1) .. Len(es) :
        es[i].k = "ELIM_VAR" /\ Mentions(es[j], es[i].var)

\* C5 as stated: on such a ledger check_invariant returns false.
C5_Original ==
    (ret.op = "check_invariant" /\ MentionedAfterElim(Ledger)) => ret.val = FALSE

\* C5 amended: check_invariant never returns false; on such a ledger a debug
\* build does not return at all (an assertion fails) and a release build
\* returns true.
C5_AssertsNotFalse ==
    ret.op = "check_invariant" =>
        ret.val = TRUE /\ (debug => ~MentionedAfterElim(Ledger))

C5_Witness ==
    /\ ret.op = "check_invariant" /\ ~debug /\ ret.val = TRUE
    /\ MentionedAfterElim(Ledger)

\* ------------------------------------------------------------------ C6
SharedVar(es) ==
    \E i \in 1 .. Len(es) : \E j \in (i + 1) .. Len(es) : es[j].var = es[i].var

SharedVarAfterElim(es) ==
    \E i \in 1 .. Len(es) : \E j \in (i + 1) .. Len(es) :
        es[i].k = "ELIM_VAR" /\ es[j].var = es[i].var

\* C6 as stated: check_invariant returns false when two entries share a
\* variable, so where it returns true collect_vars has one element per entry.
C6_Original ==
    ret.op = "check_invariant" =>
        /\ SharedVar(Ledger) => ret.val = FALSE
        /\ ret.val = TRUE => Cardinality(collect_vars_result(Ledger, {})) = Len(Ledger)

\* C6 amended: check_invariant never returns false; a debug build returns only
\* when no entry after an ELIM_VAR entry for v has variable v, so two entries
\* may share a variable when the earlier one is BLOCK_LIT; collect_vars on an
\* empty set yields the distinct entry variables, as many as entries exactly
\* when no two entries share a variable and fewer otherwise.
C6_NonReuse ==
    /\ ret.op = "check_invariant" =>
          ret.val = TRUE /\ (debug => ~SharedVarAfterElim(Ledger))
    /\ (ret.op = "collect_vars" /\ ret.arg = {}) =>
          /\ ret.val = EntryVars(Ledger)
          /\ Cardinality(ret.val) <= Len(Ledger)
          /\ (Cardinality(ret.val) = Len(Ledger)) <=> ~SharedVar(Ledger)

C6_Witness ==
    /\ ret.op = "check_invariant" /\ debug /\ ret.val = TRUE
    /\ SharedVar(Ledger)
    /\ Cardinality(collect_vars_result(Ledger, {})) < Len(Ledger)

\* ------------------------------------------------------------------ C7
\* C7: after copy(src) / operator= the destination holds what the source held
\* and the source is unchanged; an append to one converter leaves the other
\* alone; after reset the converter has no entries.
C7_ValueSemantics ==
    [][/\ ret'.op \in {"copy", "assign"} =>
            /\ m_entries'[ret'.arg[1]] = m_entries[ret'.arg[2]]
            /\ m_entries'[ret'.arg[2]] = m_entries[ret'.arg[2]]
       /\ ret'.op = "reset" => m_entries'[ret'.arg] = << >>
       /\ ret'.op = "none" =>
            \A c \in Conv : m_entries'[c] # m_entries[c] =>
                \A d \in Conv \ {c} : m_entries'[d] = m_entries[d]]_vars

\* ------------------------------------------------------------------ C8
SetMax(S) == CHOOSE x \in S : \A y \in S : y <= x

JustificationVars(es) ==
    UNION {{es[i].clauses[p].var :
               p \in {q \in 1 .. Len(es[i].clauses) : es[i].clauses[q] # null_literal}} :
           i \in 1 .. Len(es)}

\* C8: max_var(min) is the larger of min and the greatest variable of a
\* non-sentinel literal of any justification.
C8_MaxVar ==
    ret.op = "max_var" => ret.val = SetMax({ret.arg} \cup JustificationVars(Ledger))

C8_Witness ==
    /\ ret.op = "max_var"
    /\ Len(Ledger) = 2
    /\ JustificationVars(Ledger) # {}
    /\ ret.val > ret.arg

\* ------------------------------------------------------------------ C9
\* what is left of the pass: the entries not yet begun, then the literals not
\* yet read of the entry being scanned, then its self-check
LongestJustification ==
    SetMax({0} \cup {Len(Ledger[i].clauses) : i \in 1 .. Len(Ledger)})
Remaining ==
    it * (LongestJustification + 4)
      + (CASE pc = "apply_scan"  -> Len(Cur.clauses) - pos + 3
           [] pc = "apply_debug" -> 1
           [] OTHER              -> 0)

\* C9: apply is one reverse pass that completes: it starts at end(); an entry
\* is begun only from the loop head and is the one just below the last one
\* begun; no other step moves the iterator; apply returns with the iterator at
\* begin(); and the pass cannot go on for ever: while it runs a step is always
\* possible and every step leaves strictly less of the pass to do.
C9_ReversePass ==
    /\ [][/\ (pc = "build" /\ pc' = "apply_loop") => it' = Len(Ledger) + 1
          /\ InApply =>
               /\ it' \in {it, it - 1}
               /\ it' = it - 1 => (pc = "apply_loop" /\ it > 1)
               /\ (pc' = "apply_scan" /\ pc = "apply_loop") => (it' = it - 1 /\ pos' = 1)
               /\ m_entries' = m_entries
               /\ InApply' => Remaining' < Remaining]_vars
    /\ [](pc = "applied" => it = 1)
    /\ [](InApply => (Remaining >= 0 /\ ENABLED ApplyStep))

C9_Witness ==
    /\ pc = "applied"
    /\ Len(Ledger) = 2
    /\ Ledger[1].clauses # << >> /\ Ledger[2].clauses # << >>
    /\ it = 1

\* ----------------------------------------------------------------- C10
\* the scan stands at a literal (not a sentinel) of the current entry
AtLiteral ==
    /\ pc = "apply_scan"
    /\ pos <= Len(Cur.clauses)
    /\ Cur.clauses[pos] # null_literal

\* C10 as stated: a clause is marked satisfied only by a literal over a
\* variable other than the entry's own. Stated of the debug build, where a
\* run that gets this far has met no failed assertion.
C10_Original ==
    [][(debug /\ AtLiteral /\ ~sat /\ sat') => Cur.clauses[pos].var # Cur.var]_vars

\* C10 amended: a literal over the entry's own variable is never assigned by
\* the scan, and while the clause is unsatisfied its polarity is recorded, but
\* its current value is evaluated like any other literal's: the clause is
\* marked satisfied exactly when that literal is already true. A literal over
\* another variable marks the clause when it is true or is undefined and then
\* assigned.
C10_OwnLiteral ==
    [][AtLiteral =>
         LET l == Cur.clauses[pos] IN
         /\ l.var = Cur.var =>
              /\ m' = m
              /\ ~sat => (var_sign' = l.sign /\ sat' = LitTrue(l, m))
         /\ (l.var # Cur.var /\ ~sat /\ sat') =>
              \/ LitTrue(l, m) /\ m' = m
              \/ m[l.var] = "l_undef" /\ LitTrue(l, m')]_vars

C10_Witness ==
    /\ pc = "apply_scan" /\ pos = 2 /\ sat
    /\ Cur.clauses[1].var = Cur.var
    /\ LitTrue(Cur.clauses[1], m)

\* ----------------------------------------------------------------- C11
\* positions of the literals of the clause that ends at sentinel q, and those
\* of them that are over the entry's variable
ClausePositions(cl, q) ==
    {r \in 1 .. (q - 1) : \A t \in r .. (q - 1) : cl[t] # null_literal}
OwnOccurrences(e, q) ==
    {p \in ClausePositions(e.clauses, q) : e.clauses[p].var = e.var}

\* the scan of the entry at it was left at an unsatisfied sentinel
LeftAtSentinel ==
    /\ pc \in {"apply_debug", "apply_loop"}
    /\ it <= Len(Ledger)
    /\ pos <= Len(Cur.clauses)

\* C11: at the sentinel of a clause not marked satisfied, apply gives the
\* entry's variable the value that makes its last occurrence in that very
\* clause true, writes no other variable, and leaves the scan of the entry at
\* that sentinel: the literals after it are never read by the scan and the
\* model does not change again until the next entry is begun.
C11_SentinelAssigns ==
    /\ [][AtUnsatSentinel =>
            /\ OwnOccurrences(Cur, pos) # {} =>
                 LitTrue(Cur.clauses[SetMax(OwnOccurrences(Cur, pos))], m')
            /\ m'[Cur.var] \in {"l_true", "l_false"}
            /\ \A v \in Vars \ {Cur.var} : m'[v] = m[v]
            /\ pc' \in {"apply_debug", "apply_loop"}
            /\ it' = it /\ pos' = pos]_vars
    /\ [][LeftAtSentinel =>
            /\ m' = m
            /\ pc' = "apply_scan" => (it' = it - 1 /\ pos' = 1)
            /\ pc' # "apply_scan" => (pos' = pos /\ it' \in {it, it - 1})]_vars

\* the clause [x, -v] with x false and v undefined set v to false, and the
\* clause after it was not scanned
C11_Witness ==
    /\ LeftAtSentinel
    /\ pos = 3 /\ Len(Cur.clauses) > 3
    /\ Cur.clauses[1].var # Cur.var /\ ~Cur.clauses[1].sign
    /\ Cur.clauses[2].var = Cur.var /\ Cur.clauses[2].sign
    /\ m_in[Cur.clauses[1].var] = "l_false"
    /\ m_in[Cur.var] = "l_undef"
    /\ m[Cur.var] = "l_false"

\* ----------------------------------------------------------------- C12
ElimUndefined(es, mdl) ==
    \A i \in 1 .. Len(es) : es[i].k = "ELIM_VAR" => mdl[es[i].var] = "l_undef"

\* apply has finished patching the entry at it
EntryPatched ==
    /\ pc = AfterScan
    /\ it <= Len(Ledger)

\* C12 as stated: on a ledger with the ordering invariant whose clauses each
\* mention their entry's variable, from a model with the ELIM_VAR variables
\* undefined and the non-ledger variables defined, every clause of an entry
\* holds as soon as the entry is patched. Stated of the debug build, where a
\* run that gets this far has met no failed assertion.
C12_Original ==
    (debug /\ EntryPatched /\ OrderInv(Ledger) /\ OwnVarInClauses(Ledger)
        /\ ElimUndefined(Ledger, m_in) /\ NonLedgerAssigned(Ledger, m_in))
        => AllClausesHold(<<Cur>>, m)

\* C12 amended: every clause of an entry holds as soon as the entry is patched
\* when each clause of the entry mentions the entry's variable and all these
\* occurrences have one polarity; the re-scan of the debug build then finds
\* what the clause-wise definition says and its assertion does not fail.
C12_SelfCheck ==
    /\ [](EntryPatched /\ OwnPolarity(<<Cur>>) => AllClausesHold(<<Cur>>, m))
    /\ [][(pc = "apply_debug" /\ OwnPolarity(<<Cur>>)) => pc' = "apply_loop"]_vars
    /\ [][pc = "apply_debug" =>
            (pc' = "fault") = ~AllClausesHold(<<Cur>>, m)]_vars

\* a two-clause entry whose first clause was satisfied by assigning another
\* variable and whose second forced the entry's variable
C12_Witness ==
    /\ pc = "apply_debug" /\ OwnPolarity(<<Cur>>)
    /\ NumNull(Cur.clauses) = 2
    /\ pos = Len(Cur.clauses)
    /\ \E v \in Vars \ {Cur.var} : m_in[v] = "l_undef" /\ m[v] # "l_undef"
    /\ m_in[Cur.var] # m[Cur.var]
    /\ AllClausesHold(<<Cur>>, m)

\* ----------------------------------------------------------------- C13
\* C13: apply only extends the model. A variable that was defined at the call
\* and is no entry's variable keeps its value at every step; a step writes
\* only the variable of the entry being scanned or a variable that is
\* undefined at that moment, which it defines; the ledger is unchanged.
C13_OnlyExtends ==
    /\ []((InApply \/ pc = "applied") =>
             \A v \in Vars \ EntryVars(Ledger) :
                 m_in[v] # "l_undef" => m[v] = m_in[v])
    /\ [][InApply =>
            /\ m_entries' = m_entries
            /\ m_in' = m_in
            /\ pc # "apply_scan" => m' = m
            /\ pc = "apply_scan" =>
                 \A v \in Vars :
                     m'[v] # m[v] =>
                        /\ m'[v] # "l_undef"
                        /\ (v = Cur.var \/ m[v] = "l_undef")]_vars

\* a defined value of the entry's variable was overwritten while the defined
\* non-ledger variable of the same clause kept its value
C13_Witness ==
    /\ pc = "applied"
    /\ Len(Ledger) = 1
    /\ \E x \in Vars \ EntryVars(Ledger) :
          m_in[x] # "l_undef" /\ Mentions(Ledger[1], x) /\ m[x] = m_in[x]
    /\ m_in[Ledger[1].var] # "l_undef"
    /\ m[Ledger[1].var] # m_in[Ledger[1].var]

\* ----------------------------------------------------------------- C14
\* the entries the reverse pass has not begun yet
NotBegun == 1 .. (it - 1)

\* C14: on a ledger with the ordering invariant, from a model in which the
\* variable of every ELIM_VAR entry is undefined, the variable of an ELIM_VAR
\* entry is still undefined when apply begins that entry (and all the while
\* before): no entry processed earlier writes it, and the assertion at the
\* top of the loop does not fail.
C14_ElimStillUndefined ==
    /\ []((InApply /\ OrderInv(Ledger) /\ ElimUndefined(Ledger, m_in)) =>
             \A i \in NotBegun :
                 Ledger[i].k = "ELIM_VAR" => m[Ledger[i].var] = "l_undef")
    /\ [][(pc = "apply_loop" /\ OrderInv(Ledger) /\ ElimUndefined(Ledger, m_in))
             => pc' # "fault"]_vars

\* the debug build begins an ELIM_VAR entry after a later entry has written
\* the model
C14_Witness ==
    /\ debug /\ pc = "apply_scan" /\ it = 1 /\ pos = 1
    /\ Len(Ledger) = 2
    /\ OrderInv(Ledger) /\ ElimUndefined(Ledger, m_in)
    /\ Ledger[1].k = "ELIM_VAR"
    /\ m[Ledger[1].var] = "l_undef"
    /\ \E v \in Vars : m_in[v] = "l_undef" /\ m[v] # "l_undef"

\* ----------------------------------------------------------------- C15
\* new is old with one empty entry added at the end
BegunEntry(old, new) ==
    /\ Len(new) = Len(old) + 1
    /\ SubSeq(new, 1, Len(old)) = old
    /\ new[Len(new)].clauses = << >>
    /\ new[Len(new)].k \in Kinds
    /\ new[Len(new)].var \in Vars

\* new is old with the literals of one clause, in order, and one sentinel
\* appended to the justification of one entry
Attached(old, new) ==
    /\ Len(new) = Len(old)
    /\ \E i \in 1 .. Len(old) :
          /\ \A j \in (1 .. Len(old)) \ {i} : new[j] = old[j]
          /\ new[i].k = old[i].k
          /\ new[i].var = old[i].var
          /\ \E n \in 1 .. MaxClauseLen :
                /\ Len(new[i].clauses) = Len(old[i].clauses) + n + 1
                /\ SubSeq(new[i].clauses, 1, Len(old[i].clauses)) = old[i].clauses
                /\ \A p \in (Len(old[i].clauses) + 1) .. (Len(old[i].clauses) + n) :
                       new[i].clauses[p] \in Lits
                /\ new[i].clauses[Len(new[i].clauses)] = null_literal
          /\ NumNull(new[i].clauses) = NumNull(old[i].clauses) + 1

====
